---- MODULE Spec2Model ----
(***************************************************************************)
(* The stopping-point table of the Multipath Detection Algorithm           *)
(* (libparistraceroute/algorithms/mda/bound.c): bound_create, bound_build,  *)
(* bound_get_nk and bound_free, with bound_build unrolled into the steps    *)
(* of its three nested loops.                                               *)
(*                                                                         *)
(* probability_t (long double) values are modelled by exact rationals      *)
(* num/den over arbitrary-size naturals; on the inputs enumerated here     *)
(* every comparison cur_state <= ak_table[h] is decided with a relative    *)
(* margin above 1/20000, far beyond the rounding of the C arithmetic.      *)
(***************************************************************************)
EXTENDS Integers, Sequences, FiniteSets, TLC

(***************************************************************************)
(* Evaluation order.  The arguments of an operator are substituted, not    *)
(* evaluated, so an argument used n times is computed n times.  Let1 and   *)
(* Let2 compute their arguments once and hand the values to F; the         *)
(* operators named ...V below are only ever applied to such values.        *)
(***************************************************************************)
Let1(F(_), e) == CHOOSE x \in {F(v) : v \in {e}} : TRUE
Let2(F(_, _), e1, e2) == CHOOSE x \in {F(u, v) : u \in {e1}, v \in {e2}} : TRUE

(***************************************************************************)
(* Naturals of arbitrary size: little-endian sequences of limbs in         *)
(* 0..Base-1, without a most-significant zero limb (zero is <<>>).         *)
(***************************************************************************)
Base == 10 ^ 4

RECURSIVE BigOfNat(_)
BigOfNat(n) == IF n = 0 THEN <<>> ELSE <<n % Base>> \o BigOfNat(n \div Base)

SetMaxV(S) == CHOOSE m \in S : \A k \in S : k <= m

Limb(a, k) == IF k \in 1..Len(a) THEN a[k] ELSE 0

\* a without its most-significant zero limbs
BigTrimV(a) ==
  Let1(LAMBDA nz : IF nz = {} THEN <<>> ELSE SubSeq(a, 1, SetMaxV(nz)),
       {k \in 1..Len(a) : a[k] # 0})

\* The carry out of position k of the limb sums s: decided by the last
\* position up to k whose sum is not Base - 1.
CarryOutV(s, k) ==
  Let1(LAMBDA stop : stop # {} /\ s[SetMaxV(stop)] >= Base,
       {t \in 1..k : s[t] # Base - 1})

\* the number whose limb sums (each below 2 * Base - 1) are s
BigCarryV(s) ==
  Let1(BigTrimV,
       [k \in 1..(Len(s) + 1) |->
          ((IF k <= Len(s) THEN s[k] ELSE 0)
             + (IF CarryOutV(s, k - 1) THEN 1 ELSE 0)) % Base])

BigAddV(a, b) ==
  Let1(BigCarryV,
       [k \in 1..(IF Len(a) < Len(b) THEN Len(b) ELSE Len(a)) |->
          Limb(a, k) + Limb(b, k)])

\* a + b
BigAdd(a, b) == Let2(BigAddV, a, b)

BigMulSmallV(a, k) ==
  Let1(LAMBDA p :
         BigAdd([t \in 1..Len(a) |-> p[t] % Base],
                [t \in 1..(Len(a) + 1) |->
                   IF t = 1 THEN 0 ELSE p[t - 1] \div Base]),
       [t \in 1..Len(a) |-> a[t] * k])

\* a * k for a k below Base
BigMulSmall(a, k) == Let2(BigMulSmallV, a, k)

BigShiftV(a) == IF a = <<>> THEN a ELSE <<0>> \o a

RECURSIVE BigMulByV(_, _)
\* a * b, one limb of b at a time
BigMulByV(a, b) ==
  IF a = <<>> \/ b = <<>>
  THEN <<>>
  ELSE BigAdd(BigMulSmallV(a, Head(b)),
              Let1(BigShiftV, Let2(BigMulByV, a, Tail(b))))

BigMulV(a, b) == IF Len(a) < Len(b) THEN BigMulByV(b, a) ELSE BigMulByV(a, b)

\* a * b
BigMul(a, b) == Let2(BigMulV, a, b)

BigLeqV(a, b) ==
  IF Len(a) # Len(b)
  THEN Len(a) < Len(b)
  ELSE Let1(LAMBDA d : d = {} \/ a[SetMaxV(d)] < b[SetMaxV(d)],
            {k \in 1..Len(a) : a[k] # b[k]})

\* a <= b
BigLeq(a, b) == Let2(BigLeqV, a, b)

(***************************************************************************)
(* probability_t: a rational [num, den]; 0.0 and 1.0 are the literals of   *)
(* the code.                                                               *)
(***************************************************************************)
RZero == [num |-> <<>>, den |-> <<1>>]
ROne  == [num |-> <<1>>, den |-> <<1>>]

\* x * (p / q), p and q below Base
RMulFrac(x, p, q) ==
  Let1(LAMBDA v : IF v.num = <<>> \/ p = 0
                  THEN RZero
                  ELSE [num |-> BigMulSmall(v.num, p),
                        den |-> BigMulSmall(v.den, q)],
       x)

RAddV(x, y) ==
  IF x.num = <<>> THEN y
  ELSE IF y.num = <<>> THEN x
  ELSE IF x.den = y.den THEN [num |-> BigAdd(x.num, y.num), den |-> x.den]
  ELSE [num |-> BigAdd(BigMul(x.num, y.den), BigMul(y.num, x.den)),
        den |-> BigMul(x.den, y.den)]

\* x + y
RAdd(x, y) == Let2(RAddV, x, y)

RLeqV(x, y) == BigLeq(BigMul(x.num, y.den), BigMul(y.num, x.den))

\* x <= y
RLeq(x, y) == Let2(RLeqV, x, y)

(***************************************************************************)
(* The macros of bound.c                                                   *)
(***************************************************************************)
\* PROBA_HOR(i, j) = j / i, as the pair <<numerator, denominator>>
PROBA_HOR(a, b) == <<b, a>>
\* PROBA_VER without its "+ 1"
PROBA_VER_NoPlusOne(a, b) == <<a - b, a>>
\* PROBA_VER(i, j) = (i - j + 1) / i
PROBA_VER(a, b) == <<a - b + 1, a>>
NUM_PROBES(a, b) == a + b - 1
HSTART == 2

\* A null bound_t pointer, a null table pointer (no cell can be addressed),
\* and the content of a cell no one has written yet.
NULL    == [null |-> TRUE]
NoTable == <<>>
Indet   == [indet |-> TRUE]

(***************************************************************************)
(* Bounds of the model                                                     *)
(***************************************************************************)
\* largest hypothesis a caller asks for (max_interfaces, end, k - 1)
MaxHyp == 4
\* the row counter i of hypothesis h stops counting at MaxRowsPerHyp * h
MaxRowsPerHyp == 8

\* (graph confidence num/den, max_branch): 0.95 with one branching point,
\* 0.75 with two; the root taken by pow is exact on both.
ConfidenceInputs ==
  { [num |-> 19, den |-> 20, max_branch |-> 1],
    [num |-> 3,  den |-> 4,  max_branch |-> 2] }

\* What a size_t cell handed out by realloc may hold: zero, or a stale
\* stopping point left on the heap.
Indeterminate == {0, 5}

RowCap(h) == MaxRowsPerHyp * h

(***************************************************************************)
(* State                                                                   *)
(***************************************************************************)
VARIABLES
  bound,       \* the bound_t the caller works on, or NULL
  ref,         \* a second bound_t the caller holds, or NULL
  pc,          \* position of the call in progress
  last,        \* the call in progress or last completed, with its arguments
  lookup,      \* the bound_get_nk call just answered: [k, ret], or NULL
  hypothesis, i, j, jstart, cur_state   \* locals of bound_build

vars == <<bound, ref, pc, last, lookup, hypothesis, i, j, jstart, cur_state>>

locals == <<hypothesis, i, j, jstart, cur_state>>

NoCall == [op |-> "none", from |-> 0, end |-> 0, fail |-> 0]

Init ==
  /\ bound = NULL
  /\ ref = NULL
  /\ pc = "idle"
  /\ last = NoCall
  /\ lookup = NULL
  /\ hypothesis = 0 /\ i = 0 /\ j = 0 /\ jstart = 0
  /\ cur_state = RZero

(***************************************************************************)
(* Pure helpers                                                            *)
(***************************************************************************)
IntRoot(n, k) == CHOOSE x \in 0..n : x ^ k = n

\* 1 - pow(1 - graph_confidence, 1.0 / max_branch)
node_confidence(c) ==
  LET p == IntRoot(c.den - c.num, c.max_branch)
      q == IntRoot(c.den, c.max_branch)
  IN  [num |-> BigOfNat(q - p), den |-> BigOfNat(q)]

\* r = 0.9
r == [num |-> 9, den |-> 10]

RECURSIVE AkValue(_, _)
\* a1 * pow(r, k - 2), a1 = (1 - r) * confidence
AkValue(confidence, k) ==
  IF k < 2 THEN RZero
  ELSE IF k = 2 THEN RMulFrac(confidence, r.den - r.num, r.den)
  ELSE RMulFrac(AkValue(confidence, k - 1), r.num, r.den)

bound_init_aks(confidence, max_n) ==
  [k \in 0..max_n |-> AkValue(confidence, k)]

calculate(first, second, h, col) ==
  RAdd(RMulFrac(first[col], PROBA_HOR(h, col)[1], PROBA_HOR(h, col)[2]),
       RMulFrac(second[col - 1], PROBA_VER(h, col)[1], PROBA_VER(h, col)[2]))

\* the stopping test with its comparison turned round
StopTest_Reversed(js, h, cur, ak_table) ==
  js = h - 1 /\ RLeq(ak_table[h], cur)

\* the stopping test against the first significance level, whatever h
StopTest_FirstLevel(js, h, cur, ak_table) ==
  js = h - 1 /\ RLeq(cur, ak_table[HSTART])

\* the stopping test of continue_condition: TRUE when the row loop stops
StopTest(js, h, cur, ak_table) ==
  js = h - 1 /\ RLeq(cur, ak_table[h])

\* realloc to n cells: the old cells kept, the new ones as found
realloc(tbl, n, fresh) ==
  [k \in 0..(n - 1) |-> IF k \in DOMAIN tbl THEN tbl[k] ELSE fresh[k]]

\* a build that starts one hypothesis too far
GrowStart_Skip(max_n) == max_n + 2
\* where the build starts after the table has been enlarged
GrowStart(max_n) == max_n + 1

(***************************************************************************)
(* bound_create                                                            *)
(***************************************************************************)
bound_create(c, max_interfaces, ok) ==
  /\ pc = "idle"
  /\ bound = NULL
  /\ lookup' = NULL
  /\ ref' = ref
  /\ IF ~ok
     THEN \* an allocation failed: NULL is returned
          /\ bound' = NULL
          /\ pc' = "idle"
          /\ last' = [op |-> "bound_create", from |-> 0,
                      end |-> max_interfaces, fail |-> 1]
          /\ UNCHANGED locals
     ELSE LET conf == node_confidence(c) IN
          /\ bound' = [confidence |-> conf,
                       max_n      |-> max_interfaces,
                       nk_table   |-> [k \in 0..max_interfaces |-> 0],
                       ak_table   |-> bound_init_aks(conf, max_interfaces),
                       pr_failure |-> [k \in 0..max_interfaces |-> RZero],
                       first      |-> [k \in 0..(max_interfaces - 1) |-> Indet],
                       second     |-> [k \in 0..(max_interfaces - 1) |-> Indet]]
          /\ last' = [op |-> "bound_create", from |-> 0,
                      end |-> max_interfaces, fail |-> 0]
          \* bound_build(bound, bound->max_n)
          /\ hypothesis' = HSTART
          /\ pc' = "hyp"
          /\ UNCHANGED <<i, j, jstart, cur_state>>

(***************************************************************************)
(* bound_build: entry, reallocate_bound                                    *)
(***************************************************************************)
\* reallocate_bound, failing at its step `fail` (0: none fails)
reallocate_bound(b, new_max_n, fail, fresh) ==
  LET prob == [k \in 0..new_max_n |-> Indet] IN
  [b EXCEPT
     !.first      = IF fail = 1 THEN NoTable ELSE realloc(@, new_max_n, prob),
     !.second     = IF fail = 1 THEN @
                    ELSE IF fail = 2 THEN NoTable
                    ELSE realloc(@, new_max_n, prob),
     !.nk_table   = IF fail \in 1..2 THEN @
                    ELSE IF fail = 3 THEN NoTable
                    ELSE realloc(@, new_max_n + 1, fresh),
     !.ak_table   = IF fail \in 1..3 THEN @
                    ELSE IF fail = 4 THEN NoTable
                    ELSE realloc(@, new_max_n + 1, prob),
     !.pr_failure = IF fail \in 1..4 THEN @
                    ELSE IF fail = 5 THEN NoTable
                    ELSE realloc(@, new_max_n + 1, prob)]

bound_build(end, fail, fresh) ==
  /\ pc = "idle"
  /\ bound # NULL
  /\ lookup' = NULL
  /\ ref' = ref
  /\ last' = [op |-> "bound_build", from |-> bound.max_n, end |-> end,
              fail |-> IF end > bound.max_n THEN fail ELSE 0]
  /\ IF end > bound.max_n
     THEN LET b == reallocate_bound(bound, end, fail, fresh) IN
          IF fail = 0
          THEN /\ hypothesis' = GrowStart(bound.max_n)
               /\ bound' = [b EXCEPT !.max_n = end,
                                     !.ak_table = bound_init_aks(b.confidence, end)]
          ELSE /\ hypothesis' = HSTART
               /\ bound' = b
     ELSE /\ fail = 0
          /\ hypothesis' = HSTART
          /\ bound' = bound
  /\ pc' = "hyp"
  /\ UNCHANGED <<i, j, jstart, cur_state>>

(***************************************************************************)
(* bound_build: the loop over hypotheses, init_state                       *)
(***************************************************************************)
Return ==
  /\ pc' = "idle"
  /\ hypothesis' = 0 /\ i' = 0 /\ j' = 0 /\ jstart' = 0
  /\ cur_state' = RZero

Crash ==
  /\ pc' = "crashed"
  /\ UNCHANGED <<bound, locals>>

build_hypothesis ==
  /\ pc = "hyp"
  /\ lookup' = NULL
  /\ UNCHANGED <<ref, last>>
  /\ IF hypothesis <= bound.max_n
     THEN IF bound.first = NoTable \/ bound.second = NoTable
          THEN Crash
          ELSE \* init_state
               /\ bound' = [bound EXCEPT
                    !.first  = [k \in DOMAIN @ |->
                                  IF k < bound.max_n THEN RZero ELSE @[k]],
                    !.second = [@ EXCEPT ![0] = RZero, ![1] = ROne]]
               /\ cur_state' = ROne
               /\ jstart' = 2
               /\ i' = 1
               /\ pc' = "row"
               /\ UNCHANGED <<hypothesis, j>>
     ELSE /\ Return
          /\ UNCHANGED bound

(***************************************************************************)
(* bound_build: the loop over rows, continue_condition                     *)
(***************************************************************************)
build_row ==
  /\ pc = "row"
  /\ lookup' = NULL
  /\ UNCHANGED <<ref, last>>
  /\ IF jstart = hypothesis - 1 /\ bound.ak_table = NoTable
     THEN Crash
     ELSE IF StopTest(jstart, hypothesis, cur_state, bound.ak_table)
     THEN IF bound.pr_failure = NoTable \/ bound.nk_table = NoTable
          THEN Crash
          ELSE /\ bound' = [bound EXCEPT
                    !.pr_failure[hypothesis] = cur_state,
                    !.nk_table[hypothesis]   = NUM_PROBES(i, j) - 2]
               /\ hypothesis' = hypothesis + 1
               /\ pc' = "hyp"
               /\ UNCHANGED <<i, j, jstart, cur_state>>
     ELSE /\ j' = jstart
          /\ pc' = "cell"
          /\ UNCHANGED <<bound, hypothesis, i, jstart, cur_state>>

(***************************************************************************)
(* bound_build: the loop over the cells of a row                           *)
(***************************************************************************)
\* the absorption test of the inner loop
AtStoppingPoint(nk_table, row, col) == NUM_PROBES(row, col) = nk_table[col + 1]

swap(b) == [b EXCEPT !.first = b.second, !.second = b.first]

build_cell ==
  /\ pc = "cell"
  /\ lookup' = NULL
  /\ UNCHANGED <<ref, last>>
  /\ IF j < hypothesis
     THEN IF bound.nk_table = NoTable
          THEN Crash
          ELSE LET c == calculate(bound.first, bound.second, hypothesis, j) IN
               /\ cur_state' = c
               /\ IF AtStoppingPoint(bound.nk_table, i, j)
                  THEN /\ jstart' = j + 1
                       /\ bound' = [bound EXCEPT !.second[j] = RZero,
                                                 !.first[j]  = RZero]
                  ELSE /\ jstart' = jstart
                       /\ bound' = [bound EXCEPT !.second[j] = c]
               /\ j' = j + 1
               /\ UNCHANGED <<pc, hypothesis, i>>
     ELSE /\ jstart' = IF i = 1 THEN 1 ELSE jstart
          /\ bound' = swap(bound)
          /\ i' = IF i < RowCap(hypothesis) THEN i + 1 ELSE i
          /\ pc' = "row"
          /\ UNCHANGED <<hypothesis, j, cur_state>>

BuildStep == build_hypothesis \/ build_row \/ build_cell

(***************************************************************************)
(* bound_get_nk, bound_free, and the caller keeping a table aside          *)
(***************************************************************************)
\* bound_get_nk with max_n > k for max_n >= k
get_nk_Strict(b, k) ==
  IF b # NULL
  THEN IF b.nk_table # NoTable /\ b.max_n > k THEN b.nk_table[k] ELSE 0
  ELSE 0

get_nk(b, k) ==
  IF b # NULL
  THEN IF b.nk_table # NoTable /\ b.max_n >= k THEN b.nk_table[k] ELSE 0
  ELSE 0

bound_get_nk(k) ==
  /\ pc = "idle"
  /\ lookup' = [k |-> k, ret |-> get_nk(bound, k)]
  /\ UNCHANGED <<bound, ref, pc, last, locals>>

bound_free ==
  /\ pc = "idle"
  /\ bound # NULL
  /\ bound' = NULL
  /\ last' = [NoCall EXCEPT !.op = "bound_free"]
  /\ lookup' = NULL
  /\ UNCHANGED <<ref, pc, locals>>

\* the caller keeps the table bound_create just returned and goes on to
\* create another one
Retain ==
  /\ pc = "idle"
  /\ bound # NULL
  /\ ref = NULL
  /\ last.op = "bound_create"
  /\ ref' = bound
  /\ bound' = NULL
  /\ last' = NoCall
  /\ lookup' = NULL
  /\ UNCHANGED <<pc, locals>>

Create == \E c \in ConfidenceInputs, m \in HSTART..MaxHyp, ok \in BOOLEAN :
            bound_create(c, m, ok)

Grow == /\ pc = "idle"
        /\ bound # NULL
        /\ \E end \in HSTART..MaxHyp, fail \in 0..5 :
             \E fresh \in [(bound.max_n + 1)..end -> Indeterminate] :
               bound_build(end, fail, fresh)

Lookup == \E k \in 0..(MaxHyp + 1) : bound_get_nk(k)

Next == Create \/ Grow \/ BuildStep \/ Lookup \/ bound_free \/ Retain

Spec == Init /\ [][Next]_vars

(***************************************************************************)
(* Readers calling bound_get_nk while a bound_build call is in progress    *)
(***************************************************************************)
ConcurrentLookup ==
  \E k \in 0..(MaxHyp + 1) :
    /\ pc \in {"hyp", "row", "cell"}
    /\ last.op = "bound_build"
    /\ lookup' = [k |-> k, ret |-> get_nk(bound, k)]
    /\ UNCHANGED <<bound, ref, pc, last, locals>>

NextConc == Next \/ ConcurrentLookup

SpecConc == Init /\ [][NextConc]_vars

(***************************************************************************)
(* The build runs on a thread that is never stopped                        *)
(***************************************************************************)
SpecFair == Init /\ [][Next]_vars /\ WF_vars(BuildStep)

(***************************************************************************)
(* The end-to-end scenario: graph confidence 0.95, 16 interfaces, 1 branch *)
(***************************************************************************)
PublishedInterfaces == 16

PublishedConfidence == [num |-> 19, den |-> 20, max_branch |-> 1]

CreatePublished == bound_create(PublishedConfidence, PublishedInterfaces, TRUE)

NextPublished == CreatePublished \/ BuildStep \/ Lookup

SpecPublished == Init /\ [][NextPublished]_vars

(***************************************************************************)
(* Vocabulary of the properties                                            *)
(***************************************************************************)
Building == pc \in {"hyp", "row", "cell"}

\* hypothesis h has had its stopping point recorded by the build
Built(h) ==
  /\ bound # NULL
  /\ h >= HSTART
  /\ IF pc = "idle" THEN h <= bound.max_n ELSE h < hypothesis

\* the call in progress (or just completed) is a bound_build that enlarged
\* the table
GrowCall == last.op = "bound_build" /\ last.from < last.end /\ last.fail = 0

(***************************************************************************)
(* C1: bound_build(end) with end <= max_n is a no-op: it returns without   *)
(* running the build for any hypothesis and leaves max_n and every table   *)
(* entry as they were.                                                     *)
(***************************************************************************)
C1_GrowWithinRangeIsNoOp ==
  [][(pc = "idle" /\ bound # NULL /\ last'.op = "bound_build"
        /\ last'.end <= bound.max_n)
     => (pc' = "idle" /\ bound' = bound)]_vars

(***************************************************************************)
(* C2: when a reallocation fails in bound_build(end), end > max_n, the     *)
(* table (max_n, the three tables, the two scratch vectors) is left as it  *)
(* was and no build is run.                                                *)
(***************************************************************************)
C2_FailedGrowLeavesTable ==
  [][(pc = "idle" /\ bound # NULL /\ last'.op = "bound_build"
        /\ last'.fail # 0)
     => (pc' = "idle" /\ bound' = bound)]_vars

C4_Monotone ==
  (pc = "idle" /\ bound # NULL)
  => \A h1, h2 \in 0..bound.max_n :
       h1 < h2 => bound.nk_table[h1] <= bound.nk_table[h2]

C4_Witness ==
  /\ pc = "idle" /\ bound # NULL /\ GrowCall
  /\ bound.max_n = HSTART + 2
  /\ bound.nk_table[HSTART] > 0

(***************************************************************************)
(* C5: for every hypothesis h whose stopping point the build has recorded, *)
(* pr_failure[h] <= ak_table[h]; when the row loop of h has just stopped,  *)
(* pr_failure[h] is the mass of the cell at column h - 1 of the last row.  *)
(***************************************************************************)
C5_FailureBelowSignificance ==
  /\ \A h \in HSTART..(MaxHyp + 1) :
       Built(h) => RLeq(bound.pr_failure[h], bound.ak_table[h])
  /\ (pc = "hyp" /\ i > 0)
       => bound.pr_failure[hypothesis - 1] = bound.first[hypothesis - 2]

C5_Witness ==
  /\ pc = "hyp" /\ i > 0 /\ GrowCall
  /\ hypothesis = HSTART + 2
  /\ bound.pr_failure[hypothesis - 1].num # <<>>

(***************************************************************************)
(* C6: a reader that looks up, while bound_build is enlarging the table, a *)
(* hypothesis whose stopping point is not built yet gets 0.                *)
(***************************************************************************)
C6_NoPartialGrowthObserved ==
  (lookup # NULL /\ Building /\ GrowCall
     /\ last.from < lookup.k /\ lookup.k >= hypothesis)
  => lookup.ret = 0

(***************************************************************************)
(* C7: bound_create(0.95, 16, 1) yields the stopping points 6, 11, 16, 21  *)
(* for the hypotheses 2, 3, 4, 5.                                          *)
(***************************************************************************)
PublishedPoints == [h \in 2..5 |-> 5 * h - 4]

C7_PublishedSequence ==
  \A h \in DOMAIN PublishedPoints :
    (Built(h) /\ last.op = "bound_create")
      => bound.nk_table[h] = PublishedPoints[h]

\* C7 as amended: the stopping points are 5, 9, 14, 19.
ComputedPoints == [h \in 2..5 |-> IF h = 2 THEN 5 ELSE 5 * h - 6]

C7_ComputedSequence ==
  \A h \in DOMAIN ComputedPoints :
    (Built(h) /\ last.op = "bound_create")
      => bound.nk_table[h] = ComputedPoints[h]

C7_Witness ==
  /\ pc = "idle" /\ bound # NULL /\ last.op = "bound_create"
  /\ bound.max_n = PublishedInterfaces
  /\ bound.nk_table[5] = ComputedPoints[5]

(***************************************************************************)
(* C8: bound_get_nk(k) returns nk_table[k] when k <= max_n and 0 otherwise *)
(* (0 too when there is no table), and changes nothing.                    *)
(***************************************************************************)
C8_LookupIsRead ==
  [][lookup' # NULL
     => /\ lookup'.ret = IF bound # NULL /\ lookup'.k <= bound.max_n
                         THEN bound.nk_table[lookup'.k]
                         ELSE 0
        /\ UNCHANGED <<bound, ref, pc, last, locals>>]_vars

C8_Witness ==
  /\ lookup # NULL /\ bound # NULL
  /\ lookup.k = bound.max_n
  /\ lookup.ret = bound.nk_table[lookup.k]
  /\ lookup.ret > 0

(***************************************************************************)
(* C9: while hypothesis h is built, the absorption test reads only the     *)
(* stopping points of hypotheses below h, and the cell at column h - 1 is  *)
(* never made absorbing.                                                   *)
(***************************************************************************)
C9_OnlySmallerHypothesesConsulted ==
  /\ (pc = "cell" /\ j < hypothesis) => j + 1 < hypothesis
  /\ (Building /\ pc # "hyp" /\ i > 1) => jstart < hypothesis

(***************************************************************************)
(* C10: the build run by bound_create, and by a bound_build that enlarged  *)
(* the table, terminates.                                                  *)
(***************************************************************************)
C10_BuildTerminates ==
  (Building /\ (last.op = "bound_create" \/ GrowCall)) ~> (pc = "idle")

====
